---- MODULE Spec2Model ----
(***************************************************************************)
(* Model of the DUECh dictionary editor.                                   *)
(*                                                                         *)
(*  - the mutation service of src/src/lib/editor-mutations.ts running      *)
(*    against the relational schema of src/src/lib/schema.ts; every        *)
(*    awaited database statement is one atomic step, so that the states    *)
(*    between two statements of one call are visible;                      *)
(*  - the request sequencing of the search page (executeSearch) of         *)
(*    src/src/components/search/add-word-modal.tsx.                        *)
(*                                                                         *)
(* Timestamps (createdAt, updatedAt) are not modelled: no reading of the   *)
(* clock decides any branch of the code.                                   *)
(***************************************************************************)
EXTENDS Integers, Sequences, FiniteSets, TLC

(***************************************************************************)
(* JavaScript values.  Text that the code trims or indexes is a sequence   *)
(* of one-character strings; other text is an opaque string.               *)
(***************************************************************************)
Undef == "<undefined>"
NULL  == "<null>"

\* `x || null` on a string-or-missing value: undefined, null and "" are falsy.
OrNull(v) == IF v \in {Undef, NULL, ""} THEN NULL ELSE v

\* `a || b || null`
OrElseOrNull(a, b) == IF OrNull(a) # NULL THEN a ELSE OrNull(b)

\* `x ?? d`
Coalesce(v, d) == IF v \in {Undef, NULL} THEN d ELSE v

IsSpace(c) == c = " "

RECURSIVE TrimStart(_)
TrimStart(s) == IF s # <<>> /\ IsSpace(Head(s)) THEN TrimStart(Tail(s)) ELSE s

RECURSIVE TrimEnd(_)
TrimEnd(s) ==
  IF s # <<>> /\ IsSpace(s[Len(s)]) THEN TrimEnd(SubSeq(s, 1, Len(s) - 1)) ELSE s

\* trimStart in place of trim
TrimLeadingOnly(s) == TrimStart(s)

\* String.prototype.trim
Trim(s) == TrimEnd(TrimStart(s))

\* String.prototype.toLowerCase on one character
ToLowerCase(c) ==
  CASE c = "A" -> "a"
    [] c = "Z" -> "z"
    [] c = "Á" -> "á"
    [] OTHER   -> c

\* An optional text: absent (undefined or null) or present.
None    == [some |-> FALSE, v |-> <<>>]
Some(s) == [some |-> TRUE, v |-> s]

(***************************************************************************)
(* Bounds and input sets                                                   *)
(***************************************************************************)
\* calls started in one behaviour
MaxCalls == 2

Procs == {1, 2}

UserIds == {"u1"}

\* lemmas submitted to createWord
LemmaInputs ==
  { <<>>, <<" ">>, <<"a">>, <<" ", "a", " ">>, <<"A">>,
    <<"c", "a", "s", "a">>, <<"Á", "r", "b", "o", "l">> }

\* the root submitted with each lemma
RootOf(lemma) == IF lemma = <<"a">> THEN Some(<<"r", " ">>) ELSE None

\* lemmas looked up by updateWordByLemma, deleteWordByLemma and addNoteToWord,
\* and lemmas submitted to updateWordByLemma
LookupInputs == { <<"a">>, <<"A">>, <<" ", "a", " ">> }

\* CreateWordOptions as submitted: nothing given; everything given; a blank letter.
CreateOptionInputs ==
  { [letter |-> None, status |-> Undef, createdBy |-> Undef, assignedTo |-> Undef],
    [letter |-> Some(<<"Z">>), status |-> "draft", createdBy |-> "u1",
     assignedTo |-> "u1"],
    [letter |-> Some(<<" ">>), status |-> Undef, createdBy |-> NULL,
     assignedTo |-> NULL] }

\* updateWordByLemma's options as submitted (an explicit null clears the assignee).
UpdateOptionInputs ==
  { [status |-> Undef, assignedTo |-> Undef],
    [status |-> "published", assignedTo |-> NULL],
    [status |-> Undef, assignedTo |-> "u1"] }

NoteInputs == { "n1" }

MarkerKeys ==
  { "socialValuations", "socialStratumMarkers", "styleMarkers",
    "intentionalityMarkers", "geographicalMarkers", "chronologicalMarkers",
    "frequencyMarkers" }

ExampleKeys ==
  { "author", "year", "format", "title", "date", "city", "editorial",
    "volume", "number", "page", "doi", "url" }

\* An example as submitted: every optional field missing.
BlankExample ==
  [k \in ExampleKeys \cup {"publication", "source"} |-> Undef] @@ [value |-> "q"]

NoExamples == [isNull |-> TRUE, items |-> <<>>]
Examples(s) == [isNull |-> FALSE, items |-> s]

\* A meaning as submitted: every optional field missing.
BlankDef ==
  [k \in MarkerKeys \cup {"origin", "observation", "remission",
                          "grammarCategory", "dictionary", "variant"} |-> Undef]
  @@ [number |-> 1, meaning |-> "m", examples |-> NoExamples]

Ex1 == [BlankExample EXCEPT !.value = "q1", !.source = "X"]
Ex2 == [BlankExample EXCEPT !.value = "q2", !.publication = "P", !.source = "X",
                            !.author = ""]
Ex3 == [BlankExample EXCEPT !.value = "q3", !.publication = "", !.source = "X"]
Ex4 == [BlankExample EXCEPT !.value = "q4", !.page = "7"]

\* a meaning with an empty example list and an empty marker
Def1 == [BlankDef EXCEPT !.number = 1, !.meaning = "m1", !.styleMarkers = "fest",
                         !.frequencyMarkers = "", !.examples = Examples(<<>>)]
\* a meaning with four examples
Def2 == [BlankDef EXCEPT !.number = 2, !.meaning = "m2", !.origin = "lat",
                         !.geographicalMarkers = "norte", !.socialValuations = NULL,
                         !.examples = Examples(<<Ex1, Ex2, Ex3, Ex4>>)]
\* a meaning without its text, which the table refuses (NOT NULL)
Def3 == [BlankDef EXCEPT !.number = 3, !.meaning = NULL, !.examples = NoExamples]

DefInputs == { Def1, Def2, Def3 }

\* the submitted lists of meanings
ValuesInputs ==
  { <<>>, <<Def1>>, <<Def2, Def1>>, <<Def1, Def3>> }

\* the lists submitted with each lemma
ValuesOf(lemma) == IF Len(lemma) > 3 THEN { <<Def1>> } ELSE ValuesInputs

(***************************************************************************)
(* State                                                                   *)
(***************************************************************************)
VARIABLES
  words,      \* rows of table words
  meanings,   \* rows of table meanings
  examples,   \* rows of table examples
  notes,      \* rows of table notes
  serial,     \* next value of each table's serial id
  call,       \* per caller: the mutation in progress and its position
  snap,       \* per caller: the tables as they were when its call began
  ncalls,     \* calls begun so far
  ui,         \* the search page: its state, its refs, its requests in flight
  seen,       \* the search page's history: what each request was answered
  applied     \* the last call of updateStateIfChanged: its heap, arguments, result

dbVars == <<words, meanings, examples, notes, serial>>
mutationVars == <<words, meanings, examples, notes, serial, call, snap, ncalls>>
searchVars == <<ui, seen>>
pureVars == <<applied>>
vars ==
  <<words, meanings, examples, notes, serial, call, snap, ncalls, ui, seen, applied>>

Tables == [words |-> words, meanings |-> meanings, examples |-> examples,
           notes |-> notes]

NoTables == [words |-> {}, meanings |-> {}, examples |-> {}, notes |-> {}]

Idle == [op |-> "none", pc |-> "idle", arg |-> <<>>, wordId |-> 0, i |-> 0,
         mid |-> 0, nid |-> 0, res |-> "", ret |-> <<>>]

(***************************************************************************)
(* Pure helpers of editor-mutations.ts                                     *)
(***************************************************************************)
\* cleanExample without the legacy field
cleanExampleWithoutSource(ex) ==
  [k \in ExampleKeys |-> OrNull(ex[k])]
  @@ [value |-> ex.value, publication |-> OrNull(ex.publication)]

cleanExample(ex) ==
  [k \in ExampleKeys |-> OrNull(ex[k])]
  @@ [value |-> ex.value, publication |-> OrElseOrNull(ex.publication, ex.source)]

normalizeAndCleanExamples(exs) ==
  IF exs.isNull \/ Len(exs.items) = 0
  THEN <<>>
  ELSE [j \in 1..Len(exs.items) |-> cleanExample(exs.items[j])]

\* the reduce with `??` in place of `||`
markerValuesNullish(def) == [k \in MarkerKeys |-> Coalesce(def[k], NULL)]

\* the reduce over MEANING_MARKER_KEYS in insertMeaning
markerValues(def) == [k \in MarkerKeys |-> OrNull(def[k])]

\* the row insertMeaning hands to db.insert(meanings), without its id
meaningValues(wordId, def) ==
  markerValues(def)
  @@ [wordId |-> wordId, number |-> def.number, origin |-> OrNull(def.origin),
      meaning |-> def.meaning, observation |-> OrNull(def.observation),
      remission |-> OrNull(def.remission),
      grammarCategory |-> OrNull(def.grammarCategory),
      dictionary |-> OrNull(def.dictionary), variant |-> OrNull(def.variant)]

(***************************************************************************)
(* The schema's constraints                                                *)
(***************************************************************************)
WordIds == { w.id : w \in words }
MeaningIds == { m.id : m \in meanings }

\* table meanings without the reference from word_id to words.id
MeaningInsertUnreferenced(row) ==
  row.meaning \notin {NULL, Undef}

\* meanings.word_id references words.id; meanings.meaning is NOT NULL
MeaningInsertOk(row) ==
  /\ row.wordId \in WordIds
  /\ row.meaning \notin {NULL, Undef}

\* examples.meaning_id references meanings.id; examples.value is NOT NULL
ExamplesInsertOk(meaningId, rows) ==
  /\ meaningId \in MeaningIds
  /\ \A j \in 1..Len(rows) : rows[j].value \notin {NULL, Undef}

\* notes.word_id references words.id
NoteInsertOk(wordId) == wordId \in WordIds

\* ON DELETE CASCADE on examples.meaning_id: what is left of table examples
\* once the meanings `gone` are deleted
ExamplesAfterMeaningDelete(gone) ==
  { e \in examples : e.meaningId \notin { m.id : m \in gone } }

\* ON DELETE CASCADE on meanings.word_id: the meanings that go with a word
MeaningsOfWord(wordId) == { m \in meanings : m.wordId = wordId }

\* notes.word_id without its cascade
NotesKept(wordId) == notes

\* ON DELETE CASCADE on notes.word_id: what is left of table notes
NotesAfterWordDelete(wordId) == { n \in notes : n.wordId # wordId }

\* a lookup that ignores case
findFirstIgnoringCase(lemma) ==
  { w \in words :
      /\ Len(w.lemma) = Len(lemma)
      /\ \A j \in 1..Len(lemma) : ToLowerCase(w.lemma[j]) = ToLowerCase(lemma[j]) }

\* the rows db.query.words.findFirst({where: eq(words.lemma, lemma)}) may return:
\* there is no ORDER BY, so any row with that exact lemma
findFirstByLemma(lemma) == { w \in words : w.lemma = lemma }

(***************************************************************************)
(* Initial states: an empty database, or one holding a word created by     *)
(* createWord(lemma "a", values <<Def2>>) and annotated by addNoteToWord.  *)
(***************************************************************************)
SeedTables ==
  [words |-> { [id |-> 1, lemma |-> <<"a">>, root |-> None, letter |-> "a",
                status |-> "included", createdBy |-> NULL, assignedTo |-> NULL] },
   meanings |-> { meaningValues(1, Def2) @@ [id |-> 1] },
   examples |-> { cleanExample(Ex1) @@ [id |-> 1, meaningId |-> 1],
                  cleanExample(Ex2) @@ [id |-> 2, meaningId |-> 1],
                  cleanExample(Ex3) @@ [id |-> 3, meaningId |-> 1],
                  cleanExample(Ex4) @@ [id |-> 4, meaningId |-> 1] },
   notes |-> { [id |-> 1, wordId |-> 1, userId |-> "u1", note |-> "n1",
                resolved |-> FALSE] }]

SeedSerial == [words |-> 2, meanings |-> 2, examples |-> 5, notes |-> 2]
FirstSerial == [words |-> 1, meanings |-> 1, examples |-> 1, notes |-> 1]

MutationInit ==
  /\ \E seeded \in BOOLEAN :
       /\ words = IF seeded THEN SeedTables.words ELSE {}
       /\ meanings = IF seeded THEN SeedTables.meanings ELSE {}
       /\ examples = IF seeded THEN SeedTables.examples ELSE {}
       /\ notes = IF seeded THEN SeedTables.notes ELSE {}
       /\ serial = IF seeded THEN SeedSerial ELSE FirstSerial
  /\ call = [p \in Procs |-> Idle]
  /\ snap = [p \in Procs |-> NoTables]
  /\ ncalls = 0

(***************************************************************************)
(* Calls                                                                   *)
(***************************************************************************)
\* a call begins: the caller was idle; the tables are remembered
Begin(p, c) ==
  /\ call[p].pc = "idle"
  /\ ncalls < MaxCalls
  /\ ncalls' = ncalls + 1
  /\ call' = [call EXCEPT ![p] = c]
  /\ snap' = [snap EXCEPT ![p] = Tables]
  /\ UNCHANGED <<searchVars, pureVars>>

\* the call returns `ret` (res = "ok") or throws (res names the error)
Finish(c, res, ret) == [c EXCEPT !.pc = "done", !.res = res, !.ret = ret]

\* the caller takes the outcome and is idle again
Return(p) ==
  /\ call[p].pc = "done"
  /\ call' = [call EXCEPT ![p] = Idle]
  /\ snap' = [snap EXCEPT ![p] = NoTables]
  /\ UNCHANGED <<dbVars, ncalls, searchVars, pureVars>>

\* what the call returns once its loop over the submitted meanings is over
ReturnValue(c) ==
  IF c.op = "createWord"
  THEN [success |-> TRUE, wordId |-> c.wordId, lemma |-> c.lemma,
        letter |-> c.letter]
  ELSE [success |-> TRUE]

\* the loop stopping one meaning early
LoopToButLast(c, i) ==
  IF i < Len(c.arg.values)
  THEN [c EXCEPT !.pc = "insertMeaning", !.i = i]
  ELSE Finish([c EXCEPT !.i = i], "ok", ReturnValue(c))

\* the `for (const def of values)` loop: on to meaning i, or return
LoopTo(c, i) ==
  IF i <= Len(c.arg.values)
  THEN [c EXCEPT !.pc = "insertMeaning", !.i = i]
  ELSE Finish([c EXCEPT !.i = i], "ok", ReturnValue(c))

(***************************************************************************)
(* insertMeaning(wordId, def), called from createWord and                  *)
(* updateWordByLemma: two statements                                       *)
(***************************************************************************)
\* db.insert(meanings).values({...}).returning({id})
InsertMeaningRow(p) ==
  LET c   == call[p]
      def == c.arg.values[c.i]
      row == meaningValues(c.wordId, def) @@ [id |-> serial.meanings]
      exs == normalizeAndCleanExamples(def.examples)
  IN /\ c.pc = "insertMeaning"
     /\ serial' = [serial EXCEPT !.meanings = @ + 1]
     /\ IF MeaningInsertOk(row)
        THEN /\ meanings' = meanings \cup {row}
             /\ call' = [call EXCEPT ![p] =
                  IF Len(exs) > 0
                  THEN [c EXCEPT !.pc = "insertExamples", !.mid = row.id]
                  ELSE LoopTo([c EXCEPT !.mid = row.id], c.i + 1)]
        ELSE /\ meanings' = meanings
             /\ call' = [call EXCEPT ![p] = Finish(c, "DbError", <<>>)]
     /\ UNCHANGED <<words, examples, notes, snap, ncalls, searchVars, pureVars>>

\* db.insert(examples).values(cleanedExamples.map(...)): one statement
InsertMeaningExamples(p) ==
  LET c   == call[p]
      exs == normalizeAndCleanExamples(c.arg.values[c.i].examples)
      rows == { exs[j] @@ [id |-> serial.examples + j - 1, meaningId |-> c.mid]
                : j \in 1..Len(exs) }
  IN /\ c.pc = "insertExamples"
     /\ serial' = [serial EXCEPT !.examples = @ + Len(exs)]
     /\ IF ExamplesInsertOk(c.mid, exs)
        THEN /\ examples' = examples \cup rows
             /\ call' = [call EXCEPT ![p] = LoopTo(c, c.i + 1)]
        ELSE /\ examples' = examples
             /\ call' = [call EXCEPT ![p] = Finish(c, "DbError", <<>>)]
     /\ UNCHANGED <<words, meanings, notes, snap, ncalls, searchVars, pureVars>>

(***************************************************************************)
(* createWord(newWord, options)                                            *)
(***************************************************************************)
\* the lemma taken as submitted
untrimmedLemma(newWord) == newWord.lemma

normalizedLemma(newWord) == Trim(newWord.lemma)

normalizedRoot(newWord) ==
  LET r == Trim(IF newWord.root.some THEN newWord.root.v ELSE <<>>)
  IN IF r = <<>> THEN None ELSE Some(r)

\* the letter taken from the lemma whatever the option holds
letterOfLemma(newWord, options) ==
  LET lemma == normalizedLemma(newWord)
  IN ToLowerCase(IF lemma # <<>> THEN lemma[1] ELSE "a")

normalizedLetter(newWord, options) ==
  LET requestedLetter == IF options.letter.some THEN Trim(options.letter.v) ELSE <<>>
      lemma == normalizedLemma(newWord)
  IN ToLowerCase(IF requestedLetter # <<>> THEN requestedLetter[1]
                 ELSE IF lemma # <<>> THEN lemma[1]
                 ELSE "a")

\* the call and its synchronous prefix: normalisation, and the empty-lemma throw
CreateWord(p) ==
  \E lemma \in LemmaInputs, options \in CreateOptionInputs :
   \E values \in ValuesOf(lemma) :
    LET newWord == [lemma |-> lemma, root |-> RootOf(lemma), values |-> values]
        c == [Idle EXCEPT !.op = "createWord", !.arg = newWord @@ [options |-> options]]
             @@ [lemma |-> normalizedLemma(newWord),
                 letter |-> normalizedLetter(newWord, options)]
    IN /\ Begin(p, IF normalizedLemma(newWord) = <<>>
                   THEN Finish(c, "ValidationError", <<>>)
                   ELSE [c EXCEPT !.pc = "createFind"])
       /\ UNCHANGED dbVars

\* db.query.words.findFirst({where: eq(words.lemma, normalizedLemma)})
CreateWordFind(p) ==
  LET c == call[p]
  IN /\ c.pc = "createFind"
     /\ call' = [call EXCEPT ![p] =
          IF findFirstByLemma(c.lemma) # {}
          THEN Finish(c, "ConflictError", <<>>)
          ELSE [c EXCEPT !.pc = "createInsert"]]
     /\ UNCHANGED <<dbVars, snap, ncalls, searchVars, pureVars>>

\* db.insert(words).values({...}).returning()
CreateWordInsert(p) ==
  LET c == call[p]
      o == c.arg.options
      wordRecord ==
        [id |-> serial.words, lemma |-> c.lemma, root |-> normalizedRoot(c.arg),
         letter |-> c.letter, status |-> Coalesce(o.status, "included"),
         createdBy |-> Coalesce(o.createdBy, NULL),
         assignedTo |-> Coalesce(o.assignedTo, NULL)]
  IN /\ c.pc = "createInsert"
     /\ words' = words \cup {wordRecord}
     /\ serial' = [serial EXCEPT !.words = @ + 1]
     /\ call' = [call EXCEPT ![p] = LoopTo([c EXCEPT !.wordId = wordRecord.id], 1)]
     /\ UNCHANGED <<meanings, examples, notes, snap, ncalls, searchVars, pureVars>>

(***************************************************************************)
(* updateWordByLemma(prevLemma, updatedWord, options)                      *)
(***************************************************************************)
UpdateWord(p) ==
  \E prevLemma \in LookupInputs, lemma \in LookupInputs, values \in ValuesInputs,
     options \in UpdateOptionInputs :
    /\ Begin(p, [Idle EXCEPT !.op = "updateWordByLemma", !.pc = "updateFind",
                             !.arg = [prevLemma |-> prevLemma, lemma |-> lemma,
                                      root |-> RootOf(lemma), values |-> values,
                                      options |-> options]])
    /\ UNCHANGED dbVars

\* db.query.words.findFirst({where: eq(words.lemma, prevLemma)}): any matching row
UpdateWordFind(p) ==
  LET c == call[p]
      found == findFirstByLemma(c.arg.prevLemma)
  IN /\ c.pc = "updateFind"
     /\ IF found = {}
        THEN call' = [call EXCEPT ![p] = Finish(c, "NotFoundError", <<>>)]
        ELSE \E existingWord \in found :
               call' = [call EXCEPT ![p] =
                 [c EXCEPT !.pc = "updateSet", !.wordId = existingWord.id]]
     /\ UNCHANGED <<dbVars, snap, ncalls, searchVars, pureVars>>

\* updateData with `assignedTo: options?.assignedTo ?? null` and
\* `status: options?.status ?? 'draft'` written unconditionally
updateDataWithDefaults(w, updatedWord, options) ==
  [w EXCEPT
     !.lemma = updatedWord.lemma,
     !.root = IF updatedWord.root.some /\ updatedWord.root.v # <<>>
              THEN updatedWord.root ELSE None,
     !.status = Coalesce(options.status, "draft"),
     !.assignedTo = Coalesce(options.assignedTo, NULL)]

\* the row after db.update(words).set(updateData)
updateData(w, updatedWord, options) ==
  [w EXCEPT
     !.lemma = updatedWord.lemma,
     !.root = IF updatedWord.root.some /\ updatedWord.root.v # <<>>
              THEN updatedWord.root ELSE None,
     !.status = IF options.status # Undef THEN options.status ELSE @,
     !.assignedTo = IF options.assignedTo # Undef THEN options.assignedTo ELSE @]

\* db.update(words).set(updateData).where(eq(words.id, existingWord.id))
UpdateWordSet(p) ==
  LET c == call[p]
  IN /\ c.pc = "updateSet"
     /\ words' = { IF w.id = c.wordId THEN updateData(w, c.arg, c.arg.options) ELSE w
                   : w \in words }
     /\ call' = [call EXCEPT ![p] = [c EXCEPT !.pc = "updateDelete"]]
     /\ UNCHANGED <<meanings, examples, notes, serial, snap, ncalls, searchVars, pureVars>>

\* the delete keyed on the meaning's own id instead of its word's
MeaningsWithId(wordId) == { m \in meanings : m.id = wordId }

\* the rows db.delete(meanings).where(eq(meanings.wordId, existingWord.id)) removes
MeaningsToDelete(wordId) == { m \in meanings : m.wordId = wordId }

UpdateWordDelete(p) ==
  LET c == call[p]
      gone == MeaningsToDelete(c.wordId)
  IN /\ c.pc = "updateDelete"
     /\ meanings' = meanings \ gone
     /\ examples' = ExamplesAfterMeaningDelete(gone)
     /\ call' = [call EXCEPT ![p] = LoopTo(c, 1)]
     /\ UNCHANGED <<words, notes, serial, snap, ncalls, searchVars, pureVars>>

(***************************************************************************)
(* deleteWordByLemma(lemma)                                                *)
(***************************************************************************)
DeleteWord(p) ==
  \E lemma \in LookupInputs :
    /\ Begin(p, [Idle EXCEPT !.op = "deleteWordByLemma", !.pc = "deleteFind",
                             !.arg = [lemma |-> lemma]])
    /\ UNCHANGED dbVars

DeleteWordFind(p) ==
  LET c == call[p]
      found == findFirstByLemma(c.arg.lemma)
  IN /\ c.pc = "deleteFind"
     /\ IF found = {}
        THEN call' = [call EXCEPT ![p] = Finish(c, "NotFoundError", <<>>)]
        ELSE \E existingWord \in found :
               call' = [call EXCEPT ![p] =
                 [c EXCEPT !.pc = "deleteRow", !.wordId = existingWord.id]]
     /\ UNCHANGED <<dbVars, snap, ncalls, searchVars, pureVars>>

\* db.delete(words).where(eq(words.id, existingWord.id)), with the schema's
\* ON DELETE CASCADE on meanings.word_id, examples.meaning_id and notes.word_id
DeleteWordRow(p) ==
  LET c == call[p]
      gone == MeaningsOfWord(c.wordId)
  IN /\ c.pc = "deleteRow"
     /\ words' = { w \in words : w.id # c.wordId }
     /\ meanings' = meanings \ gone
     /\ examples' = ExamplesAfterMeaningDelete(gone)
     /\ notes' = NotesAfterWordDelete(c.wordId)
     /\ call' = [call EXCEPT ![p] = Finish(c, "ok", [success |-> TRUE])]
     /\ UNCHANGED <<serial, snap, ncalls, searchVars, pureVars>>

(***************************************************************************)
(* addNoteToWord(lemma, noteValue, userId)                                 *)
(***************************************************************************)
AddNote(p) ==
  \E lemma \in LookupInputs, noteValue \in NoteInputs, userId \in UserIds \cup {NULL} :
    /\ Begin(p, [Idle EXCEPT !.op = "addNoteToWord", !.pc = "noteFind",
                             !.arg = [lemma |-> lemma, noteValue |-> noteValue,
                                      userId |-> userId]])
    /\ UNCHANGED dbVars

AddNoteFind(p) ==
  LET c == call[p]
      found == findFirstByLemma(c.arg.lemma)
  IN /\ c.pc = "noteFind"
     /\ IF found = {}
        THEN call' = [call EXCEPT ![p] = Finish(c, "NotFoundError", <<>>)]
        ELSE \E existingWord \in found :
               call' = [call EXCEPT ![p] =
                 [c EXCEPT !.pc = "noteInsert", !.wordId = existingWord.id]]
     /\ UNCHANGED <<dbVars, snap, ncalls, searchVars, pureVars>>

\* the note inserted without its author
noteValuesWithoutUser(c) ==
  [wordId |-> c.wordId, userId |-> NULL, note |-> c.arg.noteValue,
   resolved |-> FALSE]

\* the row addNoteToWord hands to db.insert(notes), without its id; the
\* column `resolved` takes its default
noteValues(c) ==
  [wordId |-> c.wordId, userId |-> c.arg.userId, note |-> c.arg.noteValue,
   resolved |-> FALSE]

\* db.insert(notes).values({wordId, note, userId}).returning({id})
AddNoteInsert(p) ==
  LET c == call[p]
      row == noteValues(c) @@ [id |-> serial.notes]
  IN /\ c.pc = "noteInsert"
     /\ serial' = [serial EXCEPT !.notes = @ + 1]
     /\ IF NoteInsertOk(c.wordId)
        THEN /\ notes' = notes \cup {row}
             /\ call' = [call EXCEPT ![p] = [c EXCEPT !.pc = "noteReread", !.nid = row.id]]
        ELSE /\ notes' = notes
             /\ call' = [call EXCEPT ![p] = Finish(c, "DbError", <<>>)]
     /\ UNCHANGED <<words, meanings, examples, snap, ncalls, searchVars, pureVars>>

\* db.query.notes.findFirst({where: eq(notes.id, inserted.id), with: {user}})
AddNoteReread(p) ==
  LET c == call[p]
      found == { n \in notes : n.id = c.nid }
  IN /\ c.pc = "noteReread"
     /\ IF found = {}
        THEN call' = [call EXCEPT ![p] = Finish(c, "IntegrityError", <<>>)]
        ELSE \E created \in found :
               call' = [call EXCEPT ![p] = Finish(c, "ok", created)]
     /\ UNCHANGED <<dbVars, snap, ncalls, searchVars, pureVars>>


(***************************************************************************)
(* The search page (SearchPage of add-word-modal.tsx).                     *)
(*                                                                         *)
(* One record holds the component's state (useState), its refs (useRef),   *)
(* the state of its useSearchState hook, the URL it was rendered for and   *)
(* the requests that executeSearch has sent and that are not answered yet. *)
(* A handler is a function from that record to that record; an action      *)
(* applies the handler and then runs the component's effects until no      *)
(* state changes, as React does before it handles the next event.          *)
(***************************************************************************)
\* searches sent in one behaviour
MaxRequests == 2

RESULTS_PER_PAGE == 50

FilterKeys == {"categories", "origins", "letters", "dictionaries"} \cup MarkerKeys

NoFilters == [k \in FilterKeys |-> <<>>]

FilterInputs ==
  { NoFilters,
    [NoFilters EXCEPT !.letters = <<"a">>, !.styleMarkers = <<"fest">>] }

\* what the search bar submits as query text
QueryInputs == { <<>>, <<"a">>, <<" ", "b">> }

PageInputs == {0, 2}

\* the URLs the public page is rendered for
UrlInputs ==
  { [trimmedQuery |-> <<>>, filters |-> NoFilters, status |-> "", assignedTo |-> <<>>],
    [trimmedQuery |-> <<"a">>, filters |-> [NoFilters EXCEPT !.dictionaries = <<"duech">>],
     status |-> "draft", assignedTo |-> <<"u1">>] }

\* what searchDictionary resolves with; the server decides
ResponseInputs ==
  { [results |-> <<>>,
     pagination |-> [total |-> 0, totalPages |-> 0, hasNext |-> FALSE, hasPrev |-> FALSE]],
    [results |-> <<"w1", "w2">>,
     pagination |-> [total |-> 120, totalPages |-> 3, hasNext |-> TRUE, hasPrev |-> TRUE]] }

NoPagination == [totalPages |-> 0, hasNext |-> FALSE, hasPrev |-> FALSE]

EmptySearchState == [query |-> <<>>, filters |-> NoFilters, status |-> "", assignedTo |-> <<>>]

\* Array.prototype.join, as the sequence of its pieces
RECURSIVE Join(_, _)
Join(list, sep) ==
  IF Len(list) = 0 THEN <<>>
  ELSE IF Len(list) = 1 THEN <<list[1]>>
  ELSE <<list[1], sep>> \o Join(Tail(list), sep)

MarkerOrder ==
  << "socialValuations", "socialStratumMarkers", "styleMarkers",
     "intentionalityMarkers", "geographicalMarkers", "chronologicalMarkers",
     "frequencyMarkers" >>

buildUrlSignature(params) ==
  << params.trimmedQuery,
     Join(params.filters.categories, ","), Join(params.filters.origins, ","),
     Join(params.filters.letters, ","), Join(params.filters.dictionaries, ","),
     [j \in 1..Len(MarkerOrder) |-> Join(params.filters[MarkerOrder[j]], ",")],
     params.status, Join(params.assignedTo, ",") >>

stateHasCriteria(state, includeEditorFilters) ==
  \/ Len(state.query) > 0
  \/ Len(state.filters.categories) > 0
  \/ Len(state.filters.origins) > 0
  \/ Len(state.filters.letters) > 0
  \/ Len(state.filters.dictionaries) > 0
  \/ \E key \in MarkerKeys : Len(state.filters[key]) > 0
  \/ (includeEditorFilters /\ (Len(state.status) > 0 \/ Len(state.assignedTo) > 0))

\* useUrlSearchParams().hasUrlCriteria
hasUrlCriteria(params) ==
  \/ Len(params.trimmedQuery) > 0
  \/ \E key \in FilterKeys : Len(params.filters[key]) > 0

\* filtersChanged of lib/search-utils: some category differs in content
filtersChanged(a, b) == \E key \in FilterKeys : a[key] # b[key]

\* cloneFilters of lib/search-utils: a copy with the same content
cloneFilters(filters) == [key \in FilterKeys |-> filters[key]]

\* Objects live in a heap, a sequence indexed by address: a filters object is
\* its record of lists, a state object holds the address of its filters.
\* An object literal or cloneFilters allocates: the heap grows by one.
Allocate(heap, object) == [heap |-> Append(heap, object), ret |-> Len(heap) + 1]

\* updateStateIfChanged without its early return
updateStateAlwaysCopied(heap, prev, query, filters) ==
  LET cloned == Allocate(heap, cloneFilters(heap[filters]))
  IN Allocate(cloned.heap,
              [heap[prev] EXCEPT !.query = query, !.filters = cloned.ret])

\* updateStateIfChanged on addresses: `prev` and `filters` are addresses in
\* `heap`; the result is the heap after the call and the address returned
updateStateIfChangedAt(heap, prev, query, filters) ==
  LET hasFiltersChanged == filtersChanged(heap[heap[prev].filters], heap[filters])
      queryChanged == heap[prev].query # query
  IN IF ~hasFiltersChanged /\ ~queryChanged
     THEN [heap |-> heap, ret |-> prev]
     ELSE LET cloned == IF hasFiltersChanged
                        THEN Allocate(heap, cloneFilters(heap[filters]))
                        ELSE [heap |-> heap, ret |-> heap[prev].filters]
          IN Allocate(cloned.heap,
                      [heap[prev] EXCEPT !.query = query, !.filters = cloned.ret])

\* a state value and a filters value laid out as objects: the state's filters
\* at address 1, the state at 2, the other filters at 3
HeapOf(state, filters) == <<state.filters, [state EXCEPT !.filters = 1], filters>>

\* the value of the state object at an address
StateAt(heap, address) == [heap[address] EXCEPT !.filters = heap[@]]

\* updateStateIfChanged on values, as the page uses it
updateStateIfChanged(prev, query, filters) ==
  LET out == updateStateIfChangedAt(HeapOf(prev, filters), 2, query, 3)
  IN StateAt(out.heap, out.ret)

\* useSearchState in public mode: the search state follows the URL parameters
stateFromUrl(params) ==
  [query |-> params.trimmedQuery, filters |-> params.filters,
   status |-> params.status, assignedTo |-> params.assignedTo]

hasSearchCriteria(u) == stateHasCriteria(u.searchState, u.editorMode)

\* the component right after its first render
Mounted(editorMode, initialState, url) ==
  [editorMode |-> editorMode,
   searchState |-> initialState,
   savedFilters |-> EmptySearchState,
   isInitialized |-> TRUE,
   urlParams |-> url,
   latestRequestRef |-> 0,
   initialSearchTriggeredRef |-> FALSE,
   previousUrlSignatureRef |-> buildUrlSignature(url),
   searchResults |-> <<>>,
   isLoading |-> stateHasCriteria(initialState, editorMode),
   hasSearched |-> FALSE,
   totalResults |-> 0,
   currentPage |-> 1,
   lastExecutedQuery |-> <<>>,
   pagination |-> NoPagination,
   inflight |-> {}]

\* a request that compares its token with a stale copy of the counter
requestIsLatestAlways(u, request) == TRUE

\* `requestId !== latestRequestRef.current` does not hold
requestIsLatest(u, request) == request.requestId = u.latestRequestRef

\* executeSearch up to its await: the token, the loading flag, the state
\* update, and the request sent with the status and assignee of the render
\* the status and assignee of the state passed whatever the mode
stateFiltersSent(u) ==
  [status |-> u.searchState.status, assignedTo |-> Some(u.searchState.assignedTo)]

\* the status and assignedTo arguments of searchDictionary: those of the
\* state in editor mode, undefined otherwise
editorFiltersSent(u) ==
  [status |-> IF u.editorMode THEN u.searchState.status ELSE Undef,
   assignedTo |-> IF u.editorMode THEN Some(u.searchState.assignedTo) ELSE None]

\* a token counted from the requests still outstanding
requestIdFromOutstanding(u) ==
  Cardinality(u.inflight) + 1

\* const requestId = latestRequestRef.current + 1
nextRequestId(u) ==
  u.latestRequestRef + 1

executeSearch(u, query, filters, page) ==
  LET requestId == nextRequestId(u)
      next == updateStateIfChanged(u.searchState, query, filters)
  IN [u EXCEPT
        !.latestRequestRef = requestId,
        !.isLoading = TRUE,
        !.searchState = next,
        !.inflight = @ \cup
          { [requestId |-> requestId, query |-> query, filters |-> filters,
             page |-> page, pageSize |-> RESULTS_PER_PAGE,
             status |-> editorFiltersSent(u).status,
             assignedTo |-> editorFiltersSent(u).assignedTo,
             sendsEditorFilters |-> u.editorMode,
             nextStateSnapshot |-> next] }]

\* the `finally` of executeSearch without setIsLoading(false)
executeSearchFinallyStillLoading(u, request) ==
  IF requestIsLatest(u, request)
  THEN [u EXCEPT !.hasSearched = TRUE, !.savedFilters = request.nextStateSnapshot]
  ELSE u

\* the `finally` of executeSearch
executeSearchFinally(u, request) ==
  IF requestIsLatest(u, request)
  THEN [u EXCEPT !.hasSearched = TRUE, !.isLoading = FALSE,
                 !.savedFilters = request.nextStateSnapshot]
  ELSE u

\* executeSearch after its await resolved with searchData
executeSearchResolved(u, request, searchData) ==
  LET v == [u EXCEPT !.inflight = @ \ {request}]
  IN executeSearchFinally(
       IF ~requestIsLatest(v, request) THEN v
       ELSE [v EXCEPT !.searchResults = searchData.results,
                      !.totalResults = searchData.pagination.total,
                      !.pagination = [totalPages |-> searchData.pagination.totalPages,
                                      hasNext |-> searchData.pagination.hasNext,
                                      hasPrev |-> searchData.pagination.hasPrev],
                      !.currentPage = request.page,
                      !.lastExecutedQuery = request.query],
       request)

\* the catch of executeSearch leaving the results as they are
executeSearchRejectedKeepingResults(u, request) ==
  executeSearchFinally([u EXCEPT !.inflight = @ \ {request}], request)

\* executeSearch after its await threw
executeSearchRejected(u, request) ==
  LET v == [u EXCEPT !.inflight = @ \ {request}]
  IN executeSearchFinally(
       IF ~requestIsLatest(v, request) THEN v
       ELSE [v EXCEPT !.searchResults = <<>>, !.totalResults = 0,
                      !.pagination = NoPagination],
       request)

\* the effect that resets the bookkeeping when the public URL changes;
\* `r` is the render the effect closes over, `u` the state being built
urlSignatureEffect(u, r) ==
  LET urlSignature == buildUrlSignature(r.urlParams)
  IN IF r.editorMode \/ u.previousUrlSignatureRef = urlSignature THEN u
     ELSE LET v == [u EXCEPT !.previousUrlSignatureRef = urlSignature,
                             !.initialSearchTriggeredRef = FALSE]
          IN IF hasUrlCriteria(r.urlParams)
             THEN [v EXCEPT !.hasSearched = FALSE, !.isLoading = TRUE, !.currentPage = 1]
             ELSE IF ~stateHasCriteria(r.searchState, FALSE)
             THEN [v EXCEPT !.hasSearched = FALSE, !.searchResults = <<>>,
                            !.totalResults = 0, !.currentPage = 1,
                            !.lastExecutedQuery = <<>>, !.pagination = NoPagination,
                            !.isLoading = FALSE]
             ELSE v

\* the filters the initial auto-search takes from the URL: categories, origins,
\* letters and the marker keys
urlFilterSnapshot(params) ==
  [key \in FilterKeys |->
     IF key = "dictionaries" THEN <<>> ELSE params.filters[key]]

\* the initial auto-search effect
initialSearchEffect(u, r) ==
  IF ~r.isInitialized THEN u
  ELSE IF r.hasSearched \/ u.initialSearchTriggeredRef THEN u
  ELSE IF ~hasSearchCriteria(r) THEN [u EXCEPT !.isLoading = FALSE]
  ELSE LET fromUrl == ~r.editorMode /\ hasUrlCriteria(r.urlParams)
       IN executeSearch([u EXCEPT !.initialSearchTriggeredRef = TRUE],
                        IF fromUrl THEN r.urlParams.trimmedQuery ELSE r.searchState.query,
                        IF fromUrl THEN urlFilterSnapshot(r.urlParams)
                        ELSE r.searchState.filters,
                        1)

\* the editor auto-search effect with the trigger kept in state, which the
\* effect reads as of its render
editorSearchEffectStaleTrigger(u, r) ==
  IF ~r.editorMode \/ r.hasSearched \/ r.initialSearchTriggeredRef
     \/ ~hasSearchCriteria(r)
  THEN u
  ELSE executeSearch([u EXCEPT !.initialSearchTriggeredRef = TRUE],
                     r.searchState.query, r.searchState.filters, 1)

\* the editor auto-search effect
editorSearchEffect(u, r) ==
  IF ~r.editorMode \/ r.hasSearched \/ u.initialSearchTriggeredRef
     \/ ~hasSearchCriteria(r)
  THEN u
  ELSE executeSearch([u EXCEPT !.initialSearchTriggeredRef = TRUE],
                     r.searchState.query, r.searchState.filters, 1)

\* the effects of one render, in the order the component declares them
runEffects(r) == editorSearchEffect(initialSearchEffect(urlSignatureEffect(r, r), r), r)

\* render, run the effects, render again while they changed state
RECURSIVE settle(_)
settle(u) == LET v == runEffects(u) IN IF v = u THEN u ELSE settle(v)

handleManualSearch(u, query, filters) ==
  executeSearch(u, Trim(query), cloneFilters(filters), 1)

handlePageChange(u, page) ==
  IF page < 1 \/ page > u.pagination.totalPages THEN u
  ELSE executeSearch(u, u.searchState.query, u.searchState.filters, page)

handleSearchStateChange(u, query, filters) ==
  [u EXCEPT !.searchState =
     IF u.editorMode
     THEN IF ~filtersChanged(@.filters, filters) THEN @
          ELSE [@ EXCEPT !.filters = cloneFilters(filters)]
     ELSE updateStateIfChanged(@, query, filters)]

handleStatusChange(u, value) == [u EXCEPT !.searchState.status = value]

\* useSearchState().clearAll: every part of the search state is emptied
clearAll(u) == [u EXCEPT !.searchState = EmptySearchState]

\* handleClearAll without its last statement
handleClearAllKeepingTrigger(u) ==
  [clearAll(u) EXCEPT
     !.searchResults = <<>>, !.hasSearched = FALSE, !.totalResults = 0,
     !.currentPage = 1, !.lastExecutedQuery = <<>>, !.pagination = NoPagination,
     !.isLoading = FALSE]

handleClearAll(u) ==
  [clearAll(u) EXCEPT
     !.searchResults = <<>>, !.hasSearched = FALSE, !.totalResults = 0,
     !.currentPage = 1, !.lastExecutedQuery = <<>>, !.pagination = NoPagination,
     !.isLoading = FALSE, !.initialSearchTriggeredRef = FALSE]

\* the status and assignee dropdowns, rendered in editor mode only
statusFilter(u) == IF u.editorMode THEN {"status-filter"} ELSE {}
assignedFilter(u) == IF u.editorMode THEN {"assigned-filter"} ELSE {}

\* the controls the search bar is given as additional filters
additionalFiltersConfig(u) ==
  IF u.editorMode THEN statusFilter(u) \cup assignedFilter(u) ELSE {}

\* what the results section of the page renders
resultsSection(u) ==
  IF u.isLoading /\ ~u.hasSearched THEN "SearchLoadingSkeleton"
  ELSE IF u.hasSearched \/ (~u.editorMode /\ hasSearchCriteria(u))
  THEN IF Len(u.searchResults) > 0 THEN "WordResultsList" ELSE "NoResultsState"
  ELSE "EmptySearchState"

(***************************************************************************)
(* The search page's actions.  `seen` is the page's history of the request *)
(* sent last: the request, the tokens of the requests that were unanswered *)
(* when it was sent, what it was answered with, the tokens of the requests *)
(* answered after it was, and whether the display was reset after it was   *)
(* sent.                                                                   *)
(***************************************************************************)
Display(u) ==
  [searchResults |-> u.searchResults, totalResults |-> u.totalResults,
   pagination |-> u.pagination, currentPage |-> u.currentPage,
   lastExecutedQuery |-> u.lastExecutedQuery]

NoData ==
  [results |-> <<>>,
   pagination |-> [total |-> 0, totalPages |-> 0, hasNext |-> FALSE, hasPrev |-> FALSE]]

NoHistory ==
  [request |-> <<>>, overtook |-> {}, answer |-> "none", searchData |-> NoData,
   lateAnswers |-> {}, resetSince |-> FALSE, event |-> "mount",
   autoSearches |-> 0, autoBlind |-> FALSE]

\* the history after an event took the page from u to v
Recorded(h, u, v) ==
  IF v.latestRequestRef = u.latestRequestRef THEN h
  ELSE [request |-> CHOOSE r \in v.inflight : r.requestId = v.latestRequestRef,
        overtook |-> { r.requestId : r \in v.inflight } \ {v.latestRequestRef},
        answer |-> "pending",
        searchData |-> NoData,
        lateAnswers |-> {},
        resetSince |-> FALSE,
        event |-> h.event,
        autoSearches |-> h.autoSearches,
        autoBlind |-> h.autoBlind]

\* the history counts the searches the effects sent since the last reset
\* (mount, clear-all, a new URL signature): the handler took the page to
\* `handled`, the effects took it on to v; it remembers whether the effects
\* ever sent a search for a render without criteria
Auto(h, handled, v, reset) ==
  LET sent == v.latestRequestRef - handled.latestRequestRef
  IN [h EXCEPT
        !.autoSearches = (IF reset THEN 0 ELSE @) + sent,
        !.autoBlind = @ \/ (sent > 0 /\ ~hasSearchCriteria(handled))]

\* the history names the event handled last
Event(h, name) == [h EXCEPT !.event = name]

\* the history after `request` was answered: resolved with searchData, or rejected
Answered(h, request, answer, searchData) ==
  IF h.answer = "pending" /\ h.request.requestId = request.requestId
  THEN [h EXCEPT !.answer = answer, !.searchData = searchData]
  ELSE IF h.answer \in {"resolved", "rejected"}
  THEN [h EXCEPT !.lateAnswers = @ \cup {request.requestId}]
  ELSE h

\* the search page left alone
\* updateStateIfChanged not called yet
NotApplied == [heap |-> <<>>, prev |-> 0, query |-> <<>>, filters |-> 0,
               out |-> [heap |-> <<>>, ret |-> 0]]

SearchIdle ==
  /\ ui = Mounted(FALSE, EmptySearchState, CHOOSE x \in UrlInputs : ~hasUrlCriteria(x))
  /\ seen = NoHistory
  /\ applied = NotApplied

\* the mutation service left alone
MutationIdle ==
  /\ words = {} /\ meanings = {} /\ examples = {} /\ notes = {}
  /\ serial = FirstSerial
  /\ call = [p \in Procs |-> Idle]
  /\ snap = [p \in Procs |-> NoTables]
  /\ ncalls = 0

MaySend == ui.latestRequestRef < MaxRequests

\* the page is mounted: editor mode starts from the saved filters, public
\* mode from the URL; the effects of the first render have run
SearchInit ==
  \E editorMode \in BOOLEAN, query \in {<<>>, <<"a">>}, filters \in FilterInputs,
     url \in UrlInputs :
    LET initialState ==
          IF editorMode
          THEN [EmptySearchState EXCEPT !.query = query, !.filters = filters]
          ELSE stateFromUrl(url)
        first == Mounted(editorMode, initialState,
                         IF editorMode THEN CHOOSE x \in UrlInputs : ~hasUrlCriteria(x)
                         ELSE url)
    IN /\ (~editorMode => query = <<>> /\ filters = NoFilters)
       /\ ui = settle(first)
       /\ seen = Auto(Recorded(NoHistory, first, settle(first)), first, settle(first), TRUE)
       /\ applied = NotApplied
       /\ MutationIdle

ManualSearch ==
  /\ MaySend
  /\ \E query \in QueryInputs, filters \in FilterInputs :
       LET handled == handleManualSearch(ui, query, filters)
       IN /\ ui' = settle(handled)
          /\ seen' = Auto(Event(Recorded(seen, ui, ui'), "manualSearch"),
                          handled, ui', FALSE)
  /\ UNCHANGED <<mutationVars, pureVars>>

PageChange ==
  /\ MaySend
  /\ \E page \in PageInputs :
       LET handled == handlePageChange(ui, page)
       IN /\ ui' = settle(handled)
          /\ seen' = Auto(Event(Recorded(seen, ui, ui'), "pageChange"),
                          handled, ui', FALSE)
  /\ UNCHANGED <<mutationVars, pureVars>>

SearchStateChange ==
  /\ MaySend
  /\ \E query \in QueryInputs, filters \in FilterInputs :
       LET handled == handleSearchStateChange(ui, query, filters)
       IN /\ ui' = settle(handled)
          /\ seen' = Auto(Event(Recorded(seen, ui, ui'), "searchStateChange"),
                          handled, ui', FALSE)
  /\ UNCHANGED <<mutationVars, pureVars>>

StatusChange ==
  /\ MaySend
  /\ ui.editorMode
  /\ \E value \in {"", "draft"} :
       LET handled == handleStatusChange(ui, value)
       IN /\ ui' = settle(handled)
          /\ seen' = Auto(Event(Recorded(seen, ui, ui'), "statusChange"),
                          handled, ui', FALSE)
  /\ UNCHANGED <<mutationVars, pureVars>>

\* the "clear all" control is offered in editor mode only
ClearAll ==
  /\ ui.editorMode
  /\ ui' = settle(handleClearAll(ui))
  /\ seen' = Auto([Event(Recorded(seen, ui, ui'), "clearAll") EXCEPT !.resetSince = TRUE],
                  handleClearAll(ui), ui', TRUE)
  /\ UNCHANGED <<mutationVars, pureVars>>

\* the browser moves the public page to another URL
Navigate ==
  /\ MaySend
  /\ ~ui.editorMode
  /\ \E url \in UrlInputs \ {ui.urlParams} :
       LET handled == [ui EXCEPT !.urlParams = url, !.searchState = stateFromUrl(url)]
       IN /\ ui' = settle(handled)
          /\ seen' = Auto([Event(Recorded(seen, ui, ui'), "navigate") EXCEPT
                            !.resetSince = (ui'.latestRequestRef = ui.latestRequestRef)],
                          handled, ui',
                          buildUrlSignature(url) # ui.previousUrlSignatureRef)
  /\ UNCHANGED <<mutationVars, pureVars>>

\* searchDictionary resolves for one of the requests in flight
SearchResolved ==
  /\ \E request \in ui.inflight, searchData \in ResponseInputs :
       LET handled == executeSearchResolved(ui, request, searchData)
       IN /\ ui' = settle(handled)
          /\ seen' = Auto(Event(Recorded(Answered(seen, request, "resolved", searchData),
                                         ui, ui'), "resolved"),
                          handled, ui', FALSE)
  /\ UNCHANGED <<mutationVars, pureVars>>

\* searchDictionary throws for one of the requests in flight
SearchRejected ==
  /\ \E request \in ui.inflight :
       LET handled == executeSearchRejected(ui, request)
       IN /\ ui' = settle(handled)
          /\ seen' = Auto(Event(Recorded(Answered(seen, request, "rejected", NoData),
                                         ui, ui'), "rejected"),
                          handled, ui', FALSE)
  /\ UNCHANGED <<mutationVars, pureVars>>

(***************************************************************************)
(* Specifications                                                          *)
(***************************************************************************)
\* The mutation service with one caller: every call runs to its end before the
\* next begins.
Init == MutationInit /\ SearchIdle

Next ==
  \/ CreateWord(1) \/ CreateWordFind(1) \/ CreateWordInsert(1)
  \/ InsertMeaningRow(1) \/ InsertMeaningExamples(1)
  \/ UpdateWord(1) \/ UpdateWordFind(1) \/ UpdateWordSet(1) \/ UpdateWordDelete(1)
  \/ DeleteWord(1) \/ DeleteWordFind(1) \/ DeleteWordRow(1)
  \/ AddNote(1) \/ AddNoteFind(1) \/ AddNoteInsert(1) \/ AddNoteReread(1)
  \/ Return(1)

Spec == Init /\ [][Next]_vars

\* The mutation service with two callers: the statements of their calls
\* interleave in any order, as the awaits of two requests served by one
\* process do. The callers submit the lemma "a" and one of two lists.
TwoCallerValues == { <<Def1>>, <<Def2, Def1>> }

TwoCallerInput(c) ==
  CASE c.op = "createWord" ->
         /\ c.arg.lemma = <<"a">>
         /\ c.arg.options = [letter |-> None, status |-> Undef,
                             createdBy |-> Undef, assignedTo |-> Undef]
         /\ c.arg.values \in TwoCallerValues
    [] c.op = "updateWordByLemma" ->
         /\ c.arg.prevLemma = <<"a">>
         /\ c.arg.lemma = <<"a">>
         /\ c.arg.options = [status |-> Undef, assignedTo |-> Undef]
         /\ c.arg.values \in TwoCallerValues
    [] c.op = "deleteWordByLemma" -> c.arg.lemma = <<"a">>
    [] c.op = "addNoteToWord" -> c.arg.lemma = <<"a">> /\ c.arg.userId = "u1"
    [] OTHER -> FALSE

ConcurrentNext ==
  \/ \E p \in Procs : CreateWord(p) /\ TwoCallerInput(call'[p])
  \/ \E p \in Procs : CreateWordFind(p)
  \/ \E p \in Procs : CreateWordInsert(p)
  \/ \E p \in Procs : InsertMeaningRow(p)
  \/ \E p \in Procs : InsertMeaningExamples(p)
  \/ \E p \in Procs : UpdateWord(p) /\ TwoCallerInput(call'[p])
  \/ \E p \in Procs : UpdateWordFind(p)
  \/ \E p \in Procs : UpdateWordSet(p)
  \/ \E p \in Procs : UpdateWordDelete(p)
  \/ \E p \in Procs : DeleteWord(p) /\ TwoCallerInput(call'[p])
  \/ \E p \in Procs : DeleteWordFind(p)
  \/ \E p \in Procs : DeleteWordRow(p)
  \/ \E p \in Procs : AddNote(p) /\ TwoCallerInput(call'[p])
  \/ \E p \in Procs : AddNoteFind(p)
  \/ \E p \in Procs : AddNoteInsert(p)
  \/ \E p \in Procs : AddNoteReread(p)
  \/ \E p \in Procs : Return(p)

ConcurrentSpec == Init /\ [][ConcurrentNext]_vars

\* The search page: user events and the answers of the server, in any order.
SearchNext ==
  \/ ManualSearch \/ PageChange \/ SearchStateChange \/ StatusChange
  \/ ClearAll \/ Navigate \/ SearchResolved \/ SearchRejected

SearchSpec == SearchInit /\ [][SearchNext]_vars

\* The search page when every request sent is answered in the end: the promise
\* of searchDictionary settles, resolved or rejected, while the user may stop
\* acting at any time.
FairSearchSpec ==
  SearchInit /\ [][SearchNext]_vars /\ WF_vars(SearchResolved \/ SearchRejected)

\* updateStateIfChanged alone: any previous state, any query, and filters that
\* are the previous state's own object or another object of any content.
StatusInputs == {"", "draft"}
AssignedToInputs == { <<>>, <<"u1">> }

UpdateStateInit == MutationIdle /\ SearchIdle

ApplyUpdateState ==
  /\ \E prevQuery \in QueryInputs, prevFilters \in FilterInputs,
        status \in StatusInputs, assignedTo \in AssignedToInputs,
        query \in QueryInputs, filters \in FilterInputs, sameObject \in BOOLEAN :
       LET prevState == [query |-> prevQuery, filters |-> prevFilters,
                         status |-> status, assignedTo |-> assignedTo]
           heap == HeapOf(prevState, filters)
           given == IF sameObject THEN 1 ELSE 3
       IN /\ sameObject => filters = prevFilters
          /\ applied' = [heap |-> heap, prev |-> 2, query |-> query, filters |-> given,
                         out |-> updateStateIfChangedAt(heap, 2, query, given)]
  /\ UNCHANGED <<mutationVars, searchVars>>

UpdateStateSpec == UpdateStateInit /\ [][ApplyUpdateState]_vars

(***************************************************************************)
(* What the claims speak of                                                *)
(***************************************************************************)
\* the call of the one-caller specification, and the tables when it began
Now == call[1]
Before == snap[1]

Returned(op) == Now.op = op /\ Now.pc = "done" /\ Now.res = "ok"
Threw(op, err) == Now.op = op /\ Now.pc = "done" /\ Now.res = err

\* a text without the spaces before its first and after its last other character
Trimmed(s) ==
  LET inked == { j \in 1..Len(s) : s[j] # " " }
  IN IF inked = {} THEN <<>>
     ELSE SubSeq(s, CHOOSE j \in inked : \A k \in inked : j <= k,
                    CHOOSE j \in inked : \A k \in inked : j >= k)

\* a record without some of its fields
Without(r, ks) == [k \in DOMAIN r \ ks |-> r[k]]

RECURSIVE SortById(_)
SortById(S) ==
  IF S = {} THEN <<>>
  ELSE LET first == CHOOSE x \in S : \A y \in S : x.id <= y.id
       IN <<first>> \o SortById(S \ {first})

\* reading a word's meanings back, in insertion order, each with its examples
ReadBack(t, wordId) ==
  LET ms == SortById({ m \in t.meanings : m.wordId = wordId })
  IN [i \in 1..Len(ms) |->
       [meaning |-> Without(ms[i], {"id", "wordId"}),
        examples |->
          LET es == SortById({ e \in t.examples : e.meaningId = ms[i].id })
          IN [j \in 1..Len(es) |-> Without(es[j], {"id", "meaningId"})]]]

\* a submitted optional text as the tables hold it: empty or missing is null
Held(v) == IF v \in {Undef, NULL, ""} THEN NULL ELSE v

SubmittedExample(ex) ==
  [k \in ExampleKeys \cup {"value", "publication"} |->
     CASE k = "value" -> ex.value
       [] k = "publication" ->
            IF Held(ex.publication) # NULL THEN ex.publication ELSE Held(ex.source)
       [] OTHER -> Held(ex[k])]

\* the submitted meanings as a read-back must show them
Submitted(values) ==
  [i \in 1..Len(values) |->
     [meaning |->
        [k \in DOMAIN values[i] \ {"examples"} |->
           IF k \in {"number", "meaning"} THEN values[i][k] ELSE Held(values[i][k])],
      examples |->
        IF values[i].examples.isNull THEN <<>>
        ELSE [j \in 1..Len(values[i].examples.items) |->
                SubmittedExample(values[i].examples.items[j])]]]

\* the rows of table t.meanings / t.examples that belong to other words
OtherMeanings(t, wordId) == { m \in t.meanings : m.wordId # wordId }
ExamplesOf(t, ms) == { e \in t.examples : e.meaningId \in { m.id : m \in ms } }

\* C1: after updateWordByLemma returns, reading the word back yields exactly
\* the submitted meanings with their examples, no meaning or example row the
\* word had before is left, and the meanings and examples of the other words
\* are as they were.
C1_UpdateReplacesMeanings ==
  Returned("updateWordByLemma") =>
    LET old == { m \in Before.meanings : m.wordId = Now.wordId }
    IN /\ ReadBack(Tables, Now.wordId) = Submitted(Now.arg.values)
       /\ old \cap meanings = {}
       /\ ExamplesOf(Before, old) \cap examples = {}
       /\ OtherMeanings(Tables, Now.wordId) = OtherMeanings(Before, Now.wordId)
       /\ ExamplesOf(Tables, OtherMeanings(Tables, Now.wordId))
            = ExamplesOf(Before, OtherMeanings(Before, Now.wordId))

\* an update of a word that had meanings with examples, to a list of two
\* meanings, while another word has meanings of its own
C1_Witness ==
  /\ Returned("updateWordByLemma")
  /\ Len(Now.arg.values) = 2
  /\ ExamplesOf(Before, { m \in Before.meanings : m.wordId = Now.wordId }) # {}
  /\ OtherMeanings(Before, Now.wordId) # {}

\* the update is past its lookup and has not returned or thrown
MidUpdate ==
  /\ Now.op = "updateWordByLemma"
  /\ Now.pc \in {"updateSet", "updateDelete", "insertMeaning", "insertExamples"}

\* C2: while updateWordByLemma runs on a word that had meanings and is given
\* meanings, whoever reads the tables finds the word with at least one meaning.
C2_ReaderNeverSeesNoMeanings ==
  ( /\ MidUpdate
    /\ { m \in Before.meanings : m.wordId = Now.wordId } # {}
    /\ Len(Now.arg.values) > 0 )
  => { m \in meanings : m.wordId = Now.wordId } # {}

\* C3: an updateWordByLemma that throws after its lookup found the word
\* leaves every table as it was when the call began.
C3_FailedUpdateLeavesStorage ==
  ( /\ Now.op = "updateWordByLemma" /\ Now.pc = "done"
    /\ Now.res \notin {"ok", "NotFoundError"} )
  => Tables = Before

\* what the page displays once `request` was resolved with `searchData`
DisplayOf(request, searchData) ==
  [searchResults |-> searchData.results,
   totalResults |-> searchData.pagination.total,
   pagination |-> [totalPages |-> searchData.pagination.totalPages,
                   hasNext |-> searchData.pagination.hasNext,
                   hasPrev |-> searchData.pagination.hasPrev],
   currentPage |-> request.page,
   lastExecutedQuery |-> request.query]

\* once the request sent last is answered, and until the display is reset or
\* another request is sent, the display is that answer's: the results, total,
\* pagination, page and query of a resolved request, the empty results of a
\* rejected one
LatestAnswerDisplayed ==
  ~seen.resetSince =>
    /\ seen.answer = "resolved" => Display(ui) = DisplayOf(seen.request, seen.searchData)
    /\ seen.answer = "rejected" =>
         /\ ui.searchResults = <<>> /\ ui.totalResults = 0
         /\ ui.pagination = NoPagination
    /\ seen.answer \in {"resolved", "rejected"} => ui.hasSearched /\ ~ui.isLoading

\* a step in which a request that is not the one sent last gets its answer,
\* resolved or rejected, changes nothing but the set of requests in flight
StaleAnswerStep ==
  \A request \in ui.inflight :
    (request.requestId # ui.latestRequestRef /\ request \notin ui'.inflight)
    => ui' = [ui EXCEPT !.inflight = @ \ {request}]

\* C4: of two searches sent through executeSearch, the second while the first
\* was unanswered, only the second's answer is ever displayed, whichever
\* answer arrives first: every answer to a request that is not the latest
\* changes no state, and the latest request's answer stays on display.
C4_LastRequestWins == [](LatestAnswerDisplayed) /\ [][StaleAnswerStep]_vars

\* both answers have arrived, the first request's after the second's, and
\* the second's results are on display
C4_Witness ==
  /\ seen.answer = "resolved"
  /\ seen.searchData.results # <<>>
  /\ seen.lateAnswers \cap seen.overtook # {}
  /\ ui.inflight = {}
  /\ ~seen.resetSince

\* C5: no two rows of table words hold the same lemma.
C5_LemmaUnique ==
  \A w1 \in words, w2 \in words : w1.lemma = w2.lemma => w1.id = w2.id

\* createWord was called with a lemma whose trimmed form a word already held
CreateOfExistingLemma ==
  /\ Now.op = "createWord"
  /\ \E w \in Before.words : w.lemma = Trimmed(Now.arg.lemma)

\* C6: createWord with a lemma whose trimmed form is exactly the lemma of an
\* existing word never gets past its lookup, throws the conflict error, and
\* leaves every table as it was.
C6_CreateConflictWritesNothing ==
  CreateOfExistingLemma =>
    /\ Now.pc \in {"createFind", "done"}
    /\ Now.pc = "done" => Now.res = "ConflictError"
    /\ Tables = Before

\* the conflict is thrown for a lemma that needed trimming, against a word
\* that has meanings, examples and notes
C6_Witness ==
  /\ Threw("createWord", "ConflictError")
  /\ Now.arg.lemma # Trimmed(Now.arg.lemma)
  /\ \E w \in words : /\ w.lemma = Trimmed(Now.arg.lemma)
                      /\ ReadBack(Tables, w.id) # <<>>
                      /\ \E n \in notes : n.wordId = w.id

\* C7: createWord with an empty or whitespace-only lemma throws the validation
\* error at once: the call is never found at a database statement, and the
\* tables are as they were.
C7_EmptyLemmaRejected ==
  ( /\ Now.op = "createWord"
    /\ \A j \in 1..Len(Now.arg.lemma) : Now.arg.lemma[j] = " " )
  => /\ Now.pc = "done"
     /\ Now.res = "ValidationError"
     /\ Tables = Before

\* a whitespace-only lemma, submitted with meanings, was rejected
C7_Witness ==
  /\ Threw("createWord", "ValidationError")
  /\ Now.arg.lemma = <<" ">>
  /\ Len(Now.arg.values) > 0

\* C8: after deleteWordByLemma returns, the word's row, its meanings, their
\* examples and its notes are gone, and every other row is as it was.
C8_DeleteCascades ==
  Returned("deleteWordByLemma") =>
    LET old == { m \in Before.meanings : m.wordId = Now.wordId }
    IN /\ words = { w \in Before.words : w.id # Now.wordId }
       /\ meanings = Before.meanings \ old
       /\ examples = Before.examples \ ExamplesOf(Before, old)
       /\ notes = { n \in Before.notes : n.wordId # Now.wordId }
       /\ Now.wordId \in { w.id : w \in Before.words }

\* the deleted word had meanings, examples and notes, and another word with
\* meanings and examples stays
C8_Witness ==
  /\ Returned("deleteWordByLemma")
  /\ ExamplesOf(Before, { m \in Before.meanings : m.wordId = Now.wordId }) # {}
  /\ \E n \in Before.notes : n.wordId = Now.wordId
  /\ examples # {}

\* the lemma a lookup call was given
LookedUp == IF Now.op = "updateWordByLemma" THEN Now.arg.prevLemma ELSE Now.arg.lemma

\* C9: updateWordByLemma, deleteWordByLemma and addNoteToWord called with a
\* lemma no word holds never get past their lookup, throw the not-found error,
\* and leave every table as it was.
C9_NotFoundWritesNothing ==
  ( /\ Now.op \in {"updateWordByLemma", "deleteWordByLemma", "addNoteToWord"}
    /\ \A w \in Before.words : w.lemma # LookedUp )
  => /\ Now.pc \in {"updateFind", "deleteFind", "noteFind", "done"}
     /\ Now.pc = "done" => Now.res = "NotFoundError"
     /\ Tables = Before

\* a lookup missed a word that differs from a stored one in case only
C9_Witness ==
  /\ Now.pc = "done" /\ Now.res = "NotFoundError"
  /\ Now.op = "updateWordByLemma"
  /\ LookedUp = <<"A">>
  /\ \E w \in words : w.lemma = <<"a">>
  /\ Len(Now.arg.values) > 0

\* C10: after createWord returns for N submitted meanings, table words has
\* exactly one new row, holding the trimmed lemma; table meanings has exactly N
\* new rows, all of the new word, which read back in submission order with
\* exactly their submitted examples; nothing else changed; and the call returns
\* the new row's id, the trimmed lemma and the stored letter.
C10_CreateAddsWordAndMeanings ==
  Returned("createWord") =>
    \E w \in words \ Before.words :
      /\ words = Before.words \cup {w}
      /\ w.id \notin { x.id : x \in Before.words }
      /\ w.lemma = Trimmed(Now.arg.lemma)
      /\ Cardinality(meanings \ Before.meanings) = Len(Now.arg.values)
      /\ Before.meanings \subseteq meanings
      /\ \A m \in meanings \ Before.meanings : m.wordId = w.id
      /\ ReadBack(Tables, w.id) = Submitted(Now.arg.values)
      /\ Before.examples \subseteq examples
      /\ examples \ Before.examples = ExamplesOf(Tables, meanings \ Before.meanings)
      /\ notes = Before.notes
      /\ Now.ret = [success |-> TRUE, wordId |-> w.id, lemma |-> Trimmed(Now.arg.lemma),
                    letter |-> w.letter]

\* a word was created from an untrimmed lemma with two meanings, one of them
\* with examples and one with an empty example list, beside an existing word
C10_Witness ==
  /\ Returned("createWord")
  /\ Now.arg.lemma # Trimmed(Now.arg.lemma)
  /\ Now.arg.values = <<Def2, Def1>>
  /\ Before.words # {}

\* the word row the returned createWord inserted
CreatedWord == { w \in words : w.id = Now.ret.wordId }

\* C11: the letter createWord stores and returns is the lower-cased first
\* character of the letter option when the option, trimmed, is not empty, and
\* otherwise the lower-cased first character of the trimmed lemma; lemma
\* "casa" with letter option "Z" gives "z".
C11_LetterDerivation ==
  Returned("createWord") =>
    LET option == Now.arg.options.letter
        requested == IF option.some THEN Trimmed(option.v) ELSE <<>>
        expected == ToLowerCase(IF requested # <<>> THEN requested[1]
                                ELSE Trimmed(Now.arg.lemma)[1])
    IN /\ Now.ret.letter = expected
       /\ CreatedWord # {}
       /\ \A w \in CreatedWord : w.letter = expected
       /\ ( Now.arg.lemma = <<"c", "a", "s", "a">> /\ option = Some(<<"Z">>) )
            => Now.ret.letter = "z"

\* createWord({lemma: "casa"}, {letter: "Z"}) returned
C11_Witness ==
  /\ Returned("createWord")
  /\ Now.arg.lemma = <<"c", "a", "s", "a">>
  /\ Now.arg.options.letter = Some(<<"Z">>)
  /\ \E w \in CreatedWord : w.letter = "z"

\* C12: createWord with lemma "Árbol" and no letter option stores and returns
\* the letter "a".
C12_ArbolLetterIsA ==
  ( /\ Returned("createWord")
    /\ Now.arg.lemma = <<"Á", "r", "b", "o", "l">>
    /\ ~Now.arg.options.letter.some )
  => /\ Now.ret.letter = "a"
     /\ \A w \in CreatedWord : w.letter = "a"

\* a submitted optional text that is missing, null or empty
Absent(v) == v \in {Undef, NULL, ""}

\* the returned createWord or updateWordByLemma stored one meaning row per
\* submitted meaning and one example row per submitted example
StoredAsSubmitted ==
  LET rb == ReadBack(Tables, Now.wordId)
      values == Now.arg.values
  IN /\ Len(rb) = Len(values)
     /\ \A i \in 1..Len(values) :
          Len(rb[i].examples) =
            IF values[i].examples.isNull THEN 0 ELSE Len(values[i].examples.items)

\* C13: in every example row stored by createWord or updateWordByLemma the
\* publication is the submitted publication when that is not empty, whatever
\* source holds; the legacy source when publication is missing or empty and
\* source is not; and null when both are missing.
C13_LegacySourceBecomesPublication ==
  ( Returned("createWord") \/ Returned("updateWordByLemma") ) =>
    /\ StoredAsSubmitted
    /\ \A i \in 1..Len(Now.arg.values) :
         \A j \in 1..Len(ReadBack(Tables, Now.wordId)[i].examples) :
           LET ex == Now.arg.values[i].examples.items[j]
               stored == ReadBack(Tables, Now.wordId)[i].examples[j].publication
           IN /\ ~Absent(ex.publication) => stored = ex.publication
              /\ Absent(ex.publication) /\ ~Absent(ex.source) => stored = ex.source
              /\ Absent(ex.publication) /\ Absent(ex.source) => stored = NULL

\* createWord stored the four examples: source only, publication and source,
\* empty publication with source, and neither
C13_Witness ==
  /\ Returned("createWord")
  /\ Now.arg.values = <<Def2, Def1>>
  /\ LET exs == ReadBack(Tables, Now.wordId)[1].examples
     IN /\ Len(exs) = 4
        /\ exs[1].publication = "X"
        /\ exs[2].publication = "P"
        /\ exs[3].publication = "X"
        /\ exs[4].publication = NULL

\* C14: in every meaning row stored by createWord or updateWordByLemma each of
\* the seven marker fields holds the submitted value when that is not empty
\* and null when it is empty, null or missing, whatever the other six hold.
C14_MarkersNormalizedIndependently ==
  ( Returned("createWord") \/ Returned("updateWordByLemma") ) =>
    /\ StoredAsSubmitted
    /\ \A i \in 1..Len(Now.arg.values) : \A k \in MarkerKeys :
         LET given == Now.arg.values[i][k]
             stored == ReadBack(Tables, Now.wordId)[i].meaning[k]
         IN stored = IF Absent(given) THEN NULL ELSE given

\* updateWordByLemma stored a meaning with one marker given, one null and five
\* missing, and a meaning with one marker given, one empty and five missing
C14_Witness ==
  /\ Returned("updateWordByLemma")
  /\ Now.arg.values = <<Def2, Def1>>
  /\ LET rb == ReadBack(Tables, Now.wordId)
     IN /\ Len(rb) = 2
        /\ rb[1].meaning.geographicalMarkers = "norte"
        /\ rb[1].meaning.socialValuations = NULL
        /\ rb[2].meaning.styleMarkers = "fest"
        /\ rb[2].meaning.frequencyMarkers = NULL

C16_ClearAllResetsEverything ==
  seen.event = "clearAll" =>
    /\ ui.searchState.query = <<>>
    /\ \A key \in FilterKeys : ui.searchState.filters[key] = <<>>
    /\ ui.searchState.status = ""
    /\ ui.searchState.assignedTo = <<>>
    /\ ui.searchResults = <<>>
    /\ ui.totalResults = 0
    /\ ui.currentPage = 1
    /\ ui.lastExecutedQuery = <<>>
    /\ ui.pagination = [totalPages |-> 0, hasNext |-> FALSE, hasPrev |-> FALSE]
    /\ ~ui.hasSearched
    /\ ~ui.isLoading
    /\ ~ui.initialSearchTriggeredRef

\* "clear all" came after a search that was answered with results
C16_Witness ==
  /\ seen.event = "clearAll"
  /\ seen.answer = "resolved"
  /\ seen.searchData.results # <<>>
  /\ seen.request.query # <<>>

\* C17: when the query equals the previous state's query and the filters
\* have the content of the previous state's filters, in the same object or in
\* another, updateStateIfChanged returns the previous state object itself and
\* allocates nothing; otherwise it returns a new state object whose query and
\* filters are the given ones and whose status and assignedTo are the previous
\* state's, and it leaves the previous state object as it was.
C17_UpdateStateIfChangedIdentity ==
  applied # NotApplied =>
    LET heap == applied.heap
        out == applied.out
        prev == heap[applied.prev]
        same == /\ prev.query = applied.query
                /\ \A key \in FilterKeys :
                     heap[prev.filters][key] = heap[applied.filters][key]
    IN /\ same => out.ret = applied.prev /\ out.heap = heap
       /\ ~same =>
            /\ out.ret \notin DOMAIN heap
            /\ out.ret \in DOMAIN out.heap
            /\ out.heap[out.ret].query = applied.query
            /\ \A key \in FilterKeys :
                 out.heap[out.heap[out.ret].filters][key] = heap[applied.filters][key]
            /\ out.heap[out.ret].status = prev.status
            /\ out.heap[out.ret].assignedTo = prev.assignedTo
            /\ \A address \in DOMAIN heap : out.heap[address] = heap[address]

\* the filters given were another object with the content of the previous
\* state's filters, which were not empty, and the previous object came back
C17_Witness ==
  /\ applied # NotApplied
  /\ applied.filters # applied.heap[applied.prev].filters
  /\ applied.heap[applied.filters] # NoFilters
  /\ applied.heap[applied.prev].status = "draft"
  /\ applied.out.ret = applied.prev

\* C18: in editor mode a live change reported by the search bar leaves the
\* query of the search state as it was and sends no search request.
C18_EditorLiveChangeSendsNothing ==
  [][ ( ui.editorMode /\ seen'.event = "searchStateChange" )
        => /\ ui'.searchState.query = ui.searchState.query
           /\ ui'.latestRequestRef = ui.latestRequestRef ]_vars

\* the event handled last was the rejection of the request sent last
LatestJustRejected ==
  seen.event = "rejected" /\ seen.answer = "rejected" /\ seen.lateAnswers = {}

\* what the page shows right after that rejection
AfterLatestRejected ==
  LatestJustRejected
  => /\ ui.searchResults = <<>>
     /\ ui.totalResults = 0
     /\ ui.pagination = [totalPages |-> 0, hasNext |-> FALSE, hasPrev |-> FALSE]
     /\ ~ui.isLoading
     /\ ui.hasSearched

\* C19: once the request sent last is rejected, the results are empty, the
\* total is 0, the pagination is {0, false, false}, isLoading is false and
\* hasSearched is true; and no step that handles an answer of the server,
\* rejection or result, sends a request.
C19_FailureShowsNoResults ==
  /\ [](AfterLatestRejected)
  /\ [][ seen'.event \in {"rejected", "resolved"} =>
           /\ ui'.latestRequestRef = ui.latestRequestRef
           /\ ui'.inflight \subseteq ui.inflight ]_vars

\* the second request was rejected after an earlier search had resolved
C19_Witness ==
  /\ LatestJustRejected
  /\ seen.request.requestId = 2
  /\ ui.lastExecutedQuery # <<>>
  /\ ui.inflight = {}

\* C20: whenever the search state has no criteria (empty query, no filters
\* and, in editor mode, no status or assignee) the results section does not
\* render NoResultsState.
C20_NoCriteriaIsNotZeroResults ==
  ~hasSearchCriteria(ui) => resultsSection(ui) # "NoResultsState"

\* C21: in public mode every search request in flight was sent without status
\* and without assignedTo, whatever the search state holds, and no status or
\* assignee control is rendered; in editor mode the requests carry both.
C21_PublicModeSendsNoEditorFilters ==
  /\ ~ui.editorMode =>
       /\ \A request \in ui.inflight :
            /\ request.status = Undef
            /\ ~request.assignedTo.some
       /\ additionalFiltersConfig(ui) = {}
  /\ ui.editorMode =>
       /\ \A request \in ui.inflight :
            /\ request.status # Undef
            /\ request.assignedTo.some
       /\ additionalFiltersConfig(ui) = {"status-filter", "assigned-filter"}

\* a public page whose state holds a status and an assignee has a request in
\* flight
C21_Witness ==
  /\ ~ui.editorMode
  /\ ui.searchState.status = "draft"
  /\ ui.searchState.assignedTo = <<"u1">>
  /\ ui.inflight # {}

\* C22: on a public page, a step that takes the URL to another signature with
\* criteria sends one new request, whose query is the URL's query and whose
\* filters are the URL's categories, origins, letters, dictionaries and seven
\* marker lists.
C22_UrlChangeSearchesUrlCriteria ==
  [][ ( /\ ~ui.editorMode
        /\ seen'.event = "navigate"
        /\ buildUrlSignature(ui'.urlParams) # buildUrlSignature(ui.urlParams)
        /\ hasUrlCriteria(ui'.urlParams) )
      => /\ ui'.latestRequestRef = ui.latestRequestRef + 1
         /\ \E request \in ui'.inflight :
              /\ request.requestId = ui'.latestRequestRef
              /\ request.query = ui'.urlParams.trimmedQuery
              /\ \A key \in FilterKeys :
                   request.filters[key] = ui'.urlParams.filters[key] ]_vars

\* C23: after updateWordByLemma returns, the word's status is the option's
\* when the option gives one and the previous one otherwise; its assignee is
\* the option's when the option gives one, null included, and the previous one
\* otherwise; its id, letter and createdBy are the previous ones; the notes
\* are as they were.
C23_UpdateKeepsWhatIsNotGiven ==
  Returned("updateWordByLemma") =>
    /\ { w.id : w \in words } = { w.id : w \in Before.words }
    /\ notes = Before.notes
    /\ \A old \in Before.words : \A new \in words :
         ( old.id = Now.wordId /\ new.id = Now.wordId ) =>
           LET given == Now.arg.options
           IN /\ new.status = IF given.status = Undef THEN old.status ELSE given.status
              /\ new.assignedTo = IF given.assignedTo = Undef THEN old.assignedTo
                                  ELSE given.assignedTo
              /\ new.letter = old.letter
              /\ new.createdBy = old.createdBy

\* the word had a note; an update that gives a status and a null assignee
\* changed the one and left the other empty
C23_Witness ==
  /\ Returned("updateWordByLemma")
  /\ Now.arg.options = [status |-> "published", assignedTo |-> NULL]
  /\ \E n \in notes : n.wordId = Now.wordId
  /\ \E old \in Before.words :
       old.id = Now.wordId /\ old.status = "included"

\* the requests a step sends
IssuedBy(before, after) ==
  after.inflight \ before.inflight

\* C24: every step leaves latestRequestRef where it was or raises it; the
\* tokens of the requests a step sends are exactly the numbers above the old
\* value up to the new one, one request per number; no two outstanding
\* requests share a token and none holds a token above latestRequestRef.
C24_TokensStrictlyIncrease ==
  /\ [](/\ \A r \in ui.inflight : r.requestId \in 1..ui.latestRequestRef
        /\ \A r, q \in ui.inflight : r.requestId = q.requestId => r = q)
  /\ [][/\ ui'.latestRequestRef >= ui.latestRequestRef
        /\ { r.requestId : r \in IssuedBy(ui, ui') }
             = (ui.latestRequestRef + 1)..ui'.latestRequestRef
        /\ Cardinality(IssuedBy(ui, ui'))
             = ui'.latestRequestRef - ui.latestRequestRef]_vars

\* two requests are outstanding, the first with token 1 and the second with
\* token 2, which is the value of latestRequestRef
C24_Witness ==
  /\ ui.latestRequestRef = 2
  /\ { r.requestId : r \in ui.inflight } = {1, 2}

\* both callers' calls of `op` are over, each with the outcome "ok"
BothReturned(op) ==
  \A p \in Procs : call[p].op = op /\ call[p].pc = "done" /\ call[p].res = "ok"

\* C25: when two updateWordByLemma calls on the same word have both returned,
\* reading the word back yields the meanings one of the two submitted, whole
\* and alone.
C25_ConcurrentUpdatesDoNotMix ==
  ( BothReturned("updateWordByLemma") /\ call[1].wordId = call[2].wordId )
  => \E p \in Procs :
       ReadBack(Tables, call[p].wordId) = Submitted(call[p].arg.values)

\* C26: when two createWord calls with the same lemma are both over, at most
\* one of them returned a word and the table holds at most one word with that
\* lemma.
C26_ConcurrentCreatesOneWord ==
  ( /\ \A p \in Procs : call[p].op = "createWord" /\ call[p].pc = "done"
    /\ call[1].lemma = call[2].lemma )
  => /\ Cardinality({ p \in Procs : call[p].res = "ok" }) <= 1
     /\ Cardinality({ w \in words : w.lemma = call[1].lemma }) <= 1

\* C27: in every state, whatever the order in which the statements of
\* createWord, updateWordByLemma, deleteWordByLemma and addNoteToWord of two
\* callers ran, every meaning belongs to a stored word, every example to a
\* stored meaning and every note to a stored word.
C27_NoOrphanRows ==
  /\ \A m \in meanings : \E w \in words : w.id = m.wordId
  /\ \A e \in examples : \E m \in meanings : m.id = e.meaningId
  /\ \A n \in notes : \E w \in words : w.id = n.wordId

\* one caller's update had found its word, the other caller deleted the word,
\* and the update's insert of a meaning was refused
C27_Witness ==
  \E p, q \in Procs :
    /\ call[p].op = "updateWordByLemma" /\ call[p].pc = "done"
    /\ call[p].res = "DbError"
    /\ call[q].op = "deleteWordByLemma" /\ call[q].pc = "done" /\ call[q].res = "ok"
    /\ call[p].wordId = call[q].wordId
    /\ \A w \in words : w.id # call[p].wordId

\* C28: from handleClearAll until the next request is sent, the page shows no
\* results, a total of 0 and hasSearched false, whatever answers arrive.
C28_ClearAllOutlivesLateAnswers ==
  ( ui.editorMode /\ seen.resetSince ) =>
    /\ ui.searchResults = <<>>
    /\ ui.totalResults = 0
    /\ ~ui.hasSearched

\* the step is a reset: a clear-all, or a navigation to a URL of another signature
ResetStep ==
  \/ seen'.event = "clearAll"
  \/ seen'.event = "navigate" /\ ui'.previousUrlSignatureRef # ui.previousUrlSignatureRef

\* C29: since the last reset (mount, clear-all, new URL signature) the two
\* auto-search effects have sent at most one search, and never for a render
\* without criteria; a step that is not a reset and starts with
\* initialSearchTriggeredRef set or hasSearched true sends no automatic search.
C29_AtMostOneAutoSearch ==
  /\ [](seen.autoSearches <= 1 /\ ~seen.autoBlind)
  /\ [][( (ui.initialSearchTriggeredRef \/ ui.hasSearched) /\ ~ResetStep )
          => seen'.autoSearches = seen.autoSearches]_vars

\* in editor mode the effects sent the second request of the page, the one
\* automatic search of the period, and the user then changed the criteria
\* while it was outstanding
C29_Witness ==
  /\ ui.editorMode
  /\ seen.autoSearches = 1
  /\ seen.event = "searchStateChange"
  /\ ui.initialSearchTriggeredRef /\ ~ui.hasSearched
  /\ ui.latestRequestRef = 2
  /\ seen.answer = "pending"

\* C30: when every request sent is answered and requests stop being sent,
\* isLoading is false from some point on for ever.
C30_LoadingEnds ==
  <>[](~ui.isLoading)

\* two requests were sent, the answer of the second arrived first and the
\* answer of the first after it; nothing is outstanding and nothing loads
C30_Witness ==
  /\ ui.latestRequestRef = 2
  /\ ui.inflight = {}
  /\ seen.lateAnswers = {1}
  /\ ~ui.isLoading

====
